---- MODULE Spec2Model ----
(***************************************************************************)
(* Model of servo_control.py: the ServoController class that drives the    *)
(* JOG register (P4-05) of a Delta ASDA-AB servo amplifier over Modbus.    *)
(*                                                                         *)
(* The state is the controller object's fields.  Every method is one       *)
(* action; the outcome of each bus exchange it performs (success, or an    *)
(* exception raised by the transport) is an input of the action.  The      *)
(* variable `last` records, for the most recent call, its argument, the    *)
(* fields before the call, the value returned and the bus traffic issued.  *)
(*                                                                         *)
(* Two callers are specified.  Spec is a free caller that invokes the      *)
(* methods in any order.  SpecMain is main(): connect, check_connection,   *)
(* initialize_speed, the operator's command loop and close, with the       *)
(* operator's interrupt (KeyboardInterrupt) arriving between calls.        *)
(***************************************************************************)
EXTENDS Integers, Sequences, FiniteSets

VARIABLES
    instrument,         \* TRUE when self.instrument holds an Instrument
    current_speed,      \* self.current_speed
    current_direction,  \* self.current_direction: "none", "forward", "reverse"
    speed_assigned,     \* TRUE once current_speed was assigned after __init__
    last,               \* the most recent call and what it did
    pc,                 \* main()'s position; "api" under the free caller
    seeded,             \* main(): the speed current_speed was seeded with
    speed_written       \* main(): <<v>> when v is the speed most recently
                        \* written to JOG with success, <<>> before that

vars == <<instrument, current_speed, current_direction, speed_assigned, last,
          pc, seeded, speed_written>>

\* what only the steps of main() change
mainvars == <<pc, seeded, speed_written>>

\* ---------------------------------------------------------------- constants
VERSION == 0
ERROR == 1
JOG == 1029

FORWARD == 4999
REVERSE == 4998
STOP == 5000
SPEED_MIN == 0
SPEED_MAX == 3000

JOG_STEP == 25
INITIAL_SPEED == 20
RESET_SPEED == 20

\* ------------------------------------------------------------------- bounds
\* how far outside each end of the speed range the inputs are enumerated
Slack == 1
\* increase_speed / decrease_speed steps are 0 .. MaxStepMul multiples of JOG_STEP
MaxStepMul == 1

Commands == {FORWARD, REVERSE, STOP}
Directions == {"none", "forward", "reverse"}

\* speeds requested of set_jog_speed: both limits and beyond, typical values,
\* and the reserved command codes
Requested ==
    ((SPEED_MIN - Slack) .. SPEED_MIN)
        \cup (SPEED_MAX .. (SPEED_MAX + Slack))
        \cup {INITIAL_SPEED, 100} \cup Commands

\* values a read of JOG can return (an unsigned 16-bit register): speeds, the
\* upper limit and beyond, the command codes, the largest value
ReadValues ==
    (SPEED_MAX .. (SPEED_MAX + Slack))
        \cup {0, INITIAL_SPEED, 100, 65535} \cup Commands

\* fault codes the ERROR register can hold: none, a catalogued one, an
\* uncatalogued one
ErrorCodes == {0, 7, 11}

\* firmware versions the VERSION register can hold
Versions == {1}

Steps == {k * JOG_STEP : k \in 0 .. MaxStepMul}

\* ------------------------------------------------------------ bus exchanges
\* one write_register(JOG, value) exchange and whether it completed
write_register(value, ok) == [value |-> value, ok |-> ok]

\* one read_register(reg) exchange: the value returned and whether it completed
read_register(reg, value, ok) == [reg |-> reg, value |-> value, ok |-> ok]

\* --------------------------------------------------------------- the methods
\* variant of clamp: the upper limit is not applied
clamp_no_max(speed) ==
    IF speed < SPEED_MIN THEN SPEED_MIN ELSE speed

\* variant of clamp: the lower limit is not applied
clamp_no_min(speed) ==
    IF speed > SPEED_MAX THEN SPEED_MAX ELSE speed

\* variant of clamp: the upper limit is the largest command code
clamp_to_stop(speed) ==
    IF speed < SPEED_MIN THEN SPEED_MIN
    ELSE IF speed > STOP THEN STOP
    ELSE speed

\* set_jog_speed, range check of the requested speed
clamp(speed) ==
    IF speed < SPEED_MIN THEN SPEED_MIN
    ELSE IF speed > SPEED_MAX THEN SPEED_MAX
    ELSE speed

\* variant of jog: the direction is tracked even when the write failed
jog_track_before_write(direction, command, ok) ==
    [direction |-> IF command = FORWARD THEN "forward"
                   ELSE IF command = REVERSE THEN "reverse"
                   ELSE IF command = STOP THEN "none"
                   ELSE direction,
     ret |-> IF ok THEN "True" ELSE "False",
     writes |-> <<write_register(command, ok)>>]

\* variant of jog: a command naming the current direction is rejected
jog_edge_triggered(direction, command, ok) ==
    IF (command = FORWARD /\ direction = "forward")
        \/ (command = REVERSE /\ direction = "reverse")
        \/ (command = STOP /\ direction = "none")
    THEN [direction |-> direction, ret |-> "False", writes |-> <<>>]
    ELSE IF ok
    THEN [direction |-> IF command = FORWARD THEN "forward"
                        ELSE IF command = REVERSE THEN "reverse"
                        ELSE IF command = STOP THEN "none"
                        ELSE direction,
          ret |-> "True",
          writes |-> <<write_register(command, TRUE)>>]
    ELSE [direction |-> direction, ret |-> "False",
          writes |-> <<write_register(command, FALSE)>>]

\* jog(command): write the command, then track the direction; a failed
\* write raises before the direction is touched and the method returns False
jog(direction, command, ok) ==
    IF ok
    THEN [direction |-> IF command = FORWARD THEN "forward"
                        ELSE IF command = REVERSE THEN "reverse"
                        ELSE IF command = STOP THEN "none"
                        ELSE direction,
          ret |-> "True",
          writes |-> <<write_register(command, TRUE)>>]
    ELSE [direction |-> direction, ret |-> "False",
          writes |-> <<write_register(command, FALSE)>>]

\* variant of reassert: the two direction codes are exchanged
reassert_swapped(direction, ok) ==
    IF direction = "forward" THEN jog(direction, REVERSE, ok)
    ELSE IF direction = "reverse" THEN jog(direction, FORWARD, ok)
    ELSE [direction |-> direction, ret |-> "None", writes |-> <<>>]

\* variant of reassert: while stopped, the STOP command is sent again
reassert_with_stop(direction, ok) ==
    IF direction = "forward" THEN jog(direction, FORWARD, ok)
    ELSE IF direction = "reverse" THEN jog(direction, REVERSE, ok)
    ELSE jog(direction, STOP, ok)

\* set_jog_speed, after the speed is stored: while moving, the direction
\* command is sent again through jog(); its return value is dropped
reassert(direction, ok) ==
    IF direction = "forward" THEN jog(direction, FORWARD, ok)
    ELSE IF direction = "reverse" THEN jog(direction, REVERSE, ok)
    ELSE [direction |-> direction, ret |-> "None", writes |-> <<>>]

\* variant of set_jog_speed: the speed is stored and the direction
\* re-asserted whether or not the speed write succeeded
set_jog_speed_store_first(speed0, direction, speed, ok1, ok2) ==
    LET s == clamp(speed)
        w == write_register(s, ok1)
        j == reassert(direction, ok2)
    IN  [speed |-> s, direction |-> j.direction,
         ret |-> IF ok1 THEN "True" ELSE "False",
         writes |-> <<w>> \o j.writes, assigned |-> TRUE]

\* variant of set_jog_speed: the requested speed is stored, not the
\* clamped one that was written
set_jog_speed_store_request(speed0, direction, speed, ok1, ok2) ==
    LET s == clamp(speed)
        w == write_register(s, ok1)
    IN  IF ~ok1
        THEN [speed |-> speed0, direction |-> direction, ret |-> "False",
              writes |-> <<w>>, assigned |-> FALSE]
        ELSE LET j == reassert(direction, ok2)
             IN  [speed |-> speed, direction |-> j.direction, ret |-> "True",
                  writes |-> <<w>> \o j.writes, assigned |-> TRUE]

\* set_jog_speed(speed): clamp, write the speed, store it, re-assert the
\* direction.  ok1 is the outcome of the speed write, ok2 of the re-assert
set_jog_speed(speed0, direction, speed, ok1, ok2) ==
    LET s == clamp(speed)
        w == write_register(s, ok1)
    IN  IF ~ok1
        THEN [speed |-> speed0, direction |-> direction, ret |-> "False",
              writes |-> <<w>>, assigned |-> FALSE]
        ELSE LET j == reassert(direction, ok2)
             IN  [speed |-> s, direction |-> j.direction, ret |-> "True",
                  writes |-> <<w>> \o j.writes, assigned |-> TRUE]

\* increase_speed(increment)
increase_speed(speed0, direction, increment, ok1, ok2) ==
    set_jog_speed(speed0, direction, speed0 + increment, ok1, ok2)

\* variant of decrease_speed: the decrement is added
decrease_speed_adds(speed0, direction, decrement, ok1, ok2) ==
    set_jog_speed(speed0, direction, speed0 + decrement, ok1, ok2)

\* decrease_speed(decrement)
decrease_speed(speed0, direction, decrement, ok1, ok2) ==
    set_jog_speed(speed0, direction, speed0 - decrement, ok1, ok2)

\* variant of stop_jog: the motor is stopped by writing the lowest speed
stop_jog_zero_speed(direction, ok) ==
    jog("none", SPEED_MIN, ok)

\* variant of stop_jog: the direction is not cleared before jog(STOP)
stop_jog_no_preclear(direction, ok) ==
    jog(direction, STOP, ok)

\* stop_jog(): the direction is cleared first, then jog(STOP) is called
stop_jog(direction, ok) ==
    jog("none", STOP, ok)

\* variant of adopts: the threshold is the largest command code
adopts_up_to_stop(value) == value <= STOP

\* initialize_speed, the test that tells a speed from a motion command
adopts(value) == value <= SPEED_MAX

\* initialize_speed(): one read of JOG; the value is adopted when the read
\* completed and the value is a speed
initialize_speed(speed0, value, ok) ==
    [speed |-> IF ok /\ adopts(value) THEN value ELSE speed0,
     ret |-> "None",
     reads |-> <<read_register(JOG, value, ok)>>,
     assigned |-> ok /\ adopts(value)]

\* variant of check_connection: the fault code read is not tested
check_connection_no_fault_test(version, okV, code, okE) ==
    IF ~okV
    THEN [ret |-> "False", reads |-> <<read_register(VERSION, version, FALSE)>>]
    ELSE [ret |-> IF okE THEN "True" ELSE "False",
          reads |-> <<read_register(VERSION, version, TRUE),
                      read_register(ERROR, code, okE)>>]

\* check_connection(): read VERSION, then ERROR; True only for fault code 0
check_connection(version, okV, code, okE) ==
    IF ~okV
    THEN [ret |-> "False", reads |-> <<read_register(VERSION, version, FALSE)>>]
    ELSE [ret |-> IF okE /\ code = 0 THEN "True" ELSE "False",
          reads |-> <<read_register(VERSION, version, TRUE),
                      read_register(ERROR, code, okE)>>]

\* reset_speed_to_initial(): set_jog_speed(20), whose result is dropped
reset_speed_to_initial(speed0, direction, ok1, ok2) ==
    [set_jog_speed(speed0, direction, RESET_SPEED, ok1, ok2)
        EXCEPT !.ret = "True"]

\* variant of close: the speed is reset before the motor is stopped
close_reset_first(has, speed0, direction, okStop, ok1, ok2) ==
    IF ~has
    THEN [speed |-> speed0, direction |-> direction, ret |-> "None",
          writes |-> <<>>, assigned |-> FALSE]
    ELSE LET r == reset_speed_to_initial(speed0, direction, ok1, ok2)
             s == stop_jog(r.direction, okStop)
         IN  [speed |-> r.speed, direction |-> s.direction, ret |-> "None",
              writes |-> r.writes \o s.writes, assigned |-> r.assigned]

\* variant of close: the motor is not stopped, only the speed is reset
close_without_stop(has, speed0, direction, okStop, ok1, ok2) ==
    IF ~has
    THEN [speed |-> speed0, direction |-> direction, ret |-> "None",
          writes |-> <<>>, assigned |-> FALSE]
    ELSE LET r == reset_speed_to_initial(speed0, direction, ok1, ok2)
         IN  [speed |-> r.speed, direction |-> r.direction, ret |-> "None",
              writes |-> r.writes, assigned |-> r.assigned]

\* close(): with an instrument, stop_jog() then reset_speed_to_initial();
\* the instrument is left as it is
close(has, speed0, direction, okStop, ok1, ok2) ==
    IF ~has
    THEN [speed |-> speed0, direction |-> direction, ret |-> "None",
          writes |-> <<>>, assigned |-> FALSE]
    ELSE LET s == stop_jog(direction, okStop)
             r == reset_speed_to_initial(speed0, s.direction, ok1, ok2)
         IN  [speed |-> r.speed, direction |-> r.direction, ret |-> "None",
              writes |-> s.writes \o r.writes, assigned |-> r.assigned]

\* ------------------------------------------------------------------ actions
\* the record of a call: fields before it, its argument, result and traffic
Call(op, arg, ret, writes, reads) ==
    [op |-> op, arg |-> arg,
     pre_speed |-> current_speed, pre_direction |-> current_direction,
     pre_assigned |-> speed_assigned,
     after_stop |-> (last.op = "stop_jog" /\ last.ret = "True"),
     ret |-> ret, writes |-> writes, reads |-> reads]

\* __init__
Constructed ==
    /\ instrument = FALSE
    /\ current_speed = INITIAL_SPEED
    /\ current_direction = "none"
    /\ speed_assigned = FALSE
    /\ last = [op |-> "__init__", arg |-> 0,
               pre_speed |-> INITIAL_SPEED, pre_direction |-> "none",
               pre_assigned |-> FALSE, after_stop |-> FALSE,
               ret |-> "None", writes |-> <<>>, reads |-> <<>>]
    /\ seeded = INITIAL_SPEED
    /\ speed_written = <<>>

\* a controller constructed for a free caller
Init ==
    /\ Constructed
    /\ pc = "api"

\* connect(): the Instrument is created, then its serial port configured;
\* either step can raise
Connect ==
    \E created, configured \in BOOLEAN :
        /\ instrument' = (instrument \/ created)
        /\ last' = Call("connect", 0,
                        IF created /\ configured THEN "True" ELSE "False",
                        <<>>, <<>>)
        /\ UNCHANGED <<current_speed, current_direction, speed_assigned>>
        /\ UNCHANGED mainvars

CheckConnection ==
    \E okV, okE \in BOOLEAN, version \in Versions, code \in ErrorCodes :
        LET r == check_connection(version, instrument /\ okV,
                                  code, instrument /\ okE)
        IN  /\ last' = Call("check_connection", 0, r.ret, <<>>, r.reads)
            /\ UNCHANGED <<instrument, current_speed, current_direction,
                           speed_assigned>>
            /\ UNCHANGED mainvars

InitializeSpeed ==
    \E ok \in BOOLEAN, value \in ReadValues :
        LET r == initialize_speed(current_speed, value, instrument /\ ok)
        IN  /\ current_speed' = r.speed
            /\ speed_assigned' = (speed_assigned \/ r.assigned)
            /\ last' = Call("initialize_speed", 0, r.ret, <<>>, r.reads)
            /\ UNCHANGED <<instrument, current_direction>>
            /\ UNCHANGED mainvars

SetJogSpeed ==
    \E speed \in Requested, ok1, ok2 \in BOOLEAN :
        LET r == set_jog_speed(current_speed, current_direction, speed,
                               instrument /\ ok1, instrument /\ ok2)
        IN  /\ current_speed' = r.speed
            /\ current_direction' = r.direction
            /\ speed_assigned' = (speed_assigned \/ r.assigned)
            /\ last' = Call("set_jog_speed", speed, r.ret, r.writes, <<>>)
            /\ UNCHANGED instrument
            /\ UNCHANGED mainvars

IncreaseSpeed ==
    \E increment \in Steps, ok1, ok2 \in BOOLEAN :
        LET r == increase_speed(current_speed, current_direction, increment,
                                instrument /\ ok1, instrument /\ ok2)
        IN  /\ current_speed' = r.speed
            /\ current_direction' = r.direction
            /\ speed_assigned' = (speed_assigned \/ r.assigned)
            /\ last' = Call("increase_speed", increment, r.ret, r.writes, <<>>)
            /\ UNCHANGED instrument
            /\ UNCHANGED mainvars

DecreaseSpeed ==
    \E decrement \in Steps, ok1, ok2 \in BOOLEAN :
        LET r == decrease_speed(current_speed, current_direction, decrement,
                                instrument /\ ok1, instrument /\ ok2)
        IN  /\ current_speed' = r.speed
            /\ current_direction' = r.direction
            /\ speed_assigned' = (speed_assigned \/ r.assigned)
            /\ last' = Call("decrease_speed", decrement, r.ret, r.writes, <<>>)
            /\ UNCHANGED instrument
            /\ UNCHANGED mainvars

Jog ==
    \E command \in Commands, ok \in BOOLEAN :
        LET r == jog(current_direction, command, instrument /\ ok)
        IN  /\ current_direction' = r.direction
            /\ last' = Call("jog", command, r.ret, r.writes, <<>>)
            /\ UNCHANGED <<instrument, current_speed, speed_assigned>>
            /\ UNCHANGED mainvars

StopJog ==
    \E ok \in BOOLEAN :
        LET r == stop_jog(current_direction, instrument /\ ok)
        IN  /\ current_direction' = r.direction
            /\ last' = Call("stop_jog", 0, r.ret, r.writes, <<>>)
            /\ UNCHANGED <<instrument, current_speed, speed_assigned>>
            /\ UNCHANGED mainvars

Close ==
    \E okStop, ok1, ok2 \in BOOLEAN :
        LET r == close(instrument, current_speed, current_direction,
                       okStop, ok1, ok2)
        IN  /\ current_speed' = r.speed
            /\ current_direction' = r.direction
            /\ speed_assigned' = (speed_assigned \/ r.assigned)
            /\ last' = Call("close", 0, r.ret, r.writes, <<>>)
            /\ UNCHANGED instrument
            /\ UNCHANGED mainvars

Next ==
    \/ Connect
    \/ CheckConnection
    \/ InitializeSpeed
    \/ SetJogSpeed
    \/ IncreaseSpeed
    \/ DecreaseSpeed
    \/ Jog
    \/ StopJog
    \/ Close

Spec == Init /\ [][Next]_vars

\* ------------------------------------------------------------------- main()
\* main() is modelled with the calls it makes as its steps.  The operator's
\* interrupt is taken between two calls: where it arrives decides whether
\* the try statement of main() is there to catch it.  An unknown command
\* changes nothing and is left out.

\* the speed most recently written with success, after a call whose speed
\* write (the i-th of its writes) is given
written_after(writes, i) ==
    IF Len(writes) >= i /\ writes[i].ok THEN <<writes[i].value>>
    ELSE speed_written

\* main(), the test of check_connection()'s result: on failure close() is
\* called and main() returns; the position tells a reported fault code
\* from a failed read
after_check(r) ==
    IF r.ret = "True" THEN "init"
    ELSE IF Len(r.reads) = 2 /\ r.reads[2].ok THEN "close_fault"
    ELSE "close_nolink"

\* main(), how it leaves after close() has run
after_close(position) ==
    IF position = "close_fault" THEN "returned_fault"
    ELSE IF position = "close_nolink" THEN "returned_nolink"
    ELSE "returned"

\* ServoController() at the top of main()
InitMain ==
    /\ Constructed
    /\ pc = "connect"

\* if not controller.connect(): return
MainConnect ==
    /\ pc = "connect"
    /\ \E created, configured \in BOOLEAN :
        /\ instrument' = (instrument \/ created)
        /\ last' = Call("connect", 0,
                        IF created /\ configured THEN "True" ELSE "False",
                        <<>>, <<>>)
        /\ pc' = IF created /\ configured THEN "check"
                 ELSE "returned_unconnected"
    /\ UNCHANGED <<current_speed, current_direction, speed_assigned,
                   seeded, speed_written>>

\* if not controller.check_connection(): controller.close(); return
MainCheckConnection ==
    /\ pc = "check"
    /\ \E okV, okE \in BOOLEAN, version \in Versions, code \in ErrorCodes :
        LET r == check_connection(version, instrument /\ okV,
                                  code, instrument /\ okE)
        IN  /\ last' = Call("check_connection", 0, r.ret, <<>>, r.reads)
            /\ pc' = after_check(r)
    /\ UNCHANGED <<instrument, current_speed, current_direction,
                   speed_assigned, seeded, speed_written>>

\* controller.initialize_speed()
MainInitializeSpeed ==
    /\ pc = "init"
    /\ \E ok \in BOOLEAN, value \in ReadValues :
        LET r == initialize_speed(current_speed, value, instrument /\ ok)
        IN  /\ current_speed' = r.speed
            /\ speed_assigned' = (speed_assigned \/ r.assigned)
            /\ seeded' = IF r.assigned THEN value ELSE seeded
            /\ last' = Call("initialize_speed", 0, r.ret, <<>>, r.reads)
    /\ pc' = "loop"
    /\ UNCHANGED <<instrument, current_direction, speed_written>>

\* command "w": controller.jog(FORWARD)
MainForward ==
    /\ pc = "loop"
    /\ \E ok \in BOOLEAN :
        LET r == jog(current_direction, FORWARD, instrument /\ ok)
        IN  /\ current_direction' = r.direction
            /\ last' = Call("jog", FORWARD, r.ret, r.writes, <<>>)
    /\ UNCHANGED <<instrument, current_speed, speed_assigned, mainvars>>

\* command "s": controller.jog(REVERSE)
MainReverse ==
    /\ pc = "loop"
    /\ \E ok \in BOOLEAN :
        LET r == jog(current_direction, REVERSE, instrument /\ ok)
        IN  /\ current_direction' = r.direction
            /\ last' = Call("jog", REVERSE, r.ret, r.writes, <<>>)
    /\ UNCHANGED <<instrument, current_speed, speed_assigned, mainvars>>

\* command " " or "": controller.stop_jog()
MainStop ==
    /\ pc = "loop"
    /\ \E ok \in BOOLEAN :
        LET r == stop_jog(current_direction, instrument /\ ok)
        IN  /\ current_direction' = r.direction
            /\ last' = Call("stop_jog", 0, r.ret, r.writes, <<>>)
    /\ UNCHANGED <<instrument, current_speed, speed_assigned, mainvars>>

\* command "+": controller.increase_speed(JOG_STEP)
MainIncrease ==
    /\ pc = "loop"
    /\ \E ok1, ok2 \in BOOLEAN :
        LET r == increase_speed(current_speed, current_direction, JOG_STEP,
                                instrument /\ ok1, instrument /\ ok2)
        IN  /\ current_speed' = r.speed
            /\ current_direction' = r.direction
            /\ speed_assigned' = (speed_assigned \/ r.assigned)
            /\ speed_written' = written_after(r.writes, 1)
            /\ last' = Call("increase_speed", JOG_STEP, r.ret, r.writes, <<>>)
    /\ UNCHANGED <<instrument, pc, seeded>>

\* command "-": controller.decrease_speed(JOG_STEP)
MainDecrease ==
    /\ pc = "loop"
    /\ \E ok1, ok2 \in BOOLEAN :
        LET r == decrease_speed(current_speed, current_direction, JOG_STEP,
                                instrument /\ ok1, instrument /\ ok2)
        IN  /\ current_speed' = r.speed
            /\ current_direction' = r.direction
            /\ speed_assigned' = (speed_assigned \/ r.assigned)
            /\ speed_written' = written_after(r.writes, 1)
            /\ last' = Call("decrease_speed", JOG_STEP, r.ret, r.writes, <<>>)
    /\ UNCHANGED <<instrument, pc, seeded>>

\* command "q": break, which enters the finally clause
MainQuit ==
    /\ pc = "loop"
    /\ pc' = "finally"
    /\ UNCHANGED <<instrument, current_speed, current_direction,
                   speed_assigned, last, seeded, speed_written>>

\* KeyboardInterrupt.  Inside the try statement (the command loop) it is
\* caught and the finally clause runs; before it, nothing catches it (the
\* methods catch Exception only) and it ends main()
MainInterrupt ==
    /\ pc \in {"connect", "check", "close_fault", "close_nolink", "init",
                "loop"}
    /\ pc' = IF pc = "loop" THEN "finally"
             ELSE IF pc = "connect" THEN "aborted_unconnected"
             ELSE "aborted"
    /\ UNCHANGED <<instrument, current_speed, current_direction,
                   speed_assigned, last, seeded, speed_written>>

\* controller.close(), after a failed check_connection() or in the finally
\* clause
MainClose ==
    /\ pc \in {"close_fault", "close_nolink", "finally"}
    /\ \E okStop, ok1, ok2 \in BOOLEAN :
        LET r == close(instrument, current_speed, current_direction,
                       okStop, ok1, ok2)
        IN  /\ current_speed' = r.speed
            /\ current_direction' = r.direction
            /\ speed_assigned' = (speed_assigned \/ r.assigned)
            /\ speed_written' = written_after(r.writes, 2)
            /\ last' = Call("close", 0, r.ret, r.writes, <<>>)
    /\ pc' = after_close(pc)
    /\ UNCHANGED <<instrument, seeded>>

NextMain ==
    \/ MainConnect
    \/ MainCheckConnection
    \/ MainInitializeSpeed
    \/ MainForward
    \/ MainReverse
    \/ MainStop
    \/ MainIncrease
    \/ MainDecrease
    \/ MainQuit
    \/ MainInterrupt
    \/ MainClose

SpecMain == InitMain /\ [][NextMain]_vars

\* ------------------------------------------------------------------- claims

\* C1: in every reachable state current_speed lies in [SPEED_MIN, SPEED_MAX],
\* whatever calls were made, whatever the registers returned and whichever
\* bus exchanges failed.
C1_SpeedInRange ==
    /\ current_speed >= SPEED_MIN
    /\ current_speed <= SPEED_MAX

\* a request above the range was written and stored as SPEED_MAX
C1_Witness ==
    /\ last.op = "set_jog_speed"
    /\ last.arg > SPEED_MAX
    /\ last.ret = "True"
    /\ current_speed = SPEED_MAX

\* C2: when the write issued by stop_jog() fails, current_direction keeps
\* the value it had before the call and the call returns False.
C2_StopJogFailureKeepsDirection ==
    (/\ last.op = "stop_jog"
     /\ Len(last.writes) = 1
     /\ ~last.writes[1].ok)
        => (/\ last.ret = "False"
            /\ current_direction = last.pre_direction)

\* C3: when the write issued by jog(command) fails, the call returns False
\* and current_direction and current_speed are those from before the call.
C3_JogFailureKeepsState ==
    last.op = "jog" =>
        /\ Len(last.writes) = 1
        /\ ~last.writes[1].ok =>
            /\ last.ret = "False"
            /\ current_direction = last.pre_direction
            /\ current_speed = last.pre_speed

\* a REVERSE command timed out on a live connection while moving forward
C3_Witness ==
    /\ last.op = "jog"
    /\ instrument
    /\ last.arg = REVERSE
    /\ last.pre_direction = "forward"
    /\ ~last.writes[1].ok
    /\ current_direction = "forward"

\* C4: when the speed write of set_jog_speed(requested) fails, the call
\* returns False, current_speed and current_direction are those from before
\* the call, and the speed write is the only write the call attempted.
C4_SpeedWriteFailureKeepsState ==
    last.op = "set_jog_speed" =>
        /\ Len(last.writes) >= 1
        /\ ~last.writes[1].ok =>
            /\ last.ret = "False"
            /\ current_speed = last.pre_speed
            /\ current_direction = last.pre_direction
            /\ Len(last.writes) = 1

\* the speed write timed out on a live connection while moving forward, for
\* a request that differs from the stored speed
C4_Witness ==
    /\ last.op = "set_jog_speed"
    /\ instrument
    /\ last.pre_direction = "forward"
    /\ last.arg = 100
    /\ last.pre_speed = INITIAL_SPEED
    /\ ~last.writes[1].ok
    /\ current_speed = INITIAL_SPEED

\* C5: set_jog_speed returns True only if every register write it issued in
\* the call (the speed write and the direction re-assert) succeeded.
C5_SuccessMeansAllWritesSucceeded ==
    (last.op = "set_jog_speed" /\ last.ret = "True")
        => \A i \in 1 .. Len(last.writes) : last.writes[i].ok

\* C6: set_jog_speed(requested) while Forward (Reverse), all writes
\* succeeding, issues exactly two writes: the clamped speed, then FORWARD
\* (REVERSE); the direction afterwards is still Forward (Reverse).
C6_SpeedThenDirection ==
    (/\ last.op = "set_jog_speed"
     /\ last.pre_direction \in {"forward", "reverse"}
     /\ \A i \in 1 .. Len(last.writes) : last.writes[i].ok)
        => (/\ Len(last.writes) = 2
            /\ last.writes[1].value =
                   (IF last.arg < 0 THEN 0
                    ELSE IF last.arg > 3000 THEN 3000 ELSE last.arg)
            /\ last.writes[2].value =
                   (IF last.pre_direction = "forward" THEN 4999 ELSE 4998)
            /\ current_direction = last.pre_direction)

\* jog(FORWARD) then set_jog_speed(100): JOG=100, then JOG=4999
C6_Witness ==
    /\ last.op = "set_jog_speed"
    /\ last.pre_direction = "forward"
    /\ last.arg = 100
    /\ last.writes = <<write_register(100, TRUE), write_register(4999, TRUE)>>
    /\ current_direction = "forward"

\* C7, as stated: after set_jog_speed succeeds, every value the call wrote
\* to the JOG register is in [0, 3000] and none is a reserved command code,
\* for every prior direction.
C7_Original ==
    (last.op = "set_jog_speed" /\ last.ret = "True")
        => \A i \in 1 .. Len(last.writes) :
               last.writes[i].ok =>
                   /\ last.writes[i].value \in 0 .. 3000
                   /\ last.writes[i].value \notin {4998, 4999, 5000}

\* C7, amended: after set_jog_speed succeeds, the speed value it wrote (the
\* first write of the call) is in [0, 3000] and is no reserved command code;
\* the only other write the call can make is the command code of the prior
\* direction, made after the speed write and only while Forward or Reverse.
C7_SpeedWriteInRange ==
    (last.op = "set_jog_speed" /\ last.ret = "True")
        => (/\ Len(last.writes) >= 1
            /\ last.writes[1].ok
            /\ last.writes[1].value \in 0 .. 3000
            /\ last.writes[1].value \notin {4998, 4999, 5000}
            /\ \A i \in 2 .. Len(last.writes) :
                   /\ i = 2
                   /\ last.pre_direction \in {"forward", "reverse"}
                   /\ last.writes[i].value =
                          (IF last.pre_direction = "forward" THEN 4999
                           ELSE 4998))

\* a request equal to the FORWARD code, made while reversing, was written
\* as 3000
C7_Witness ==
    /\ last.op = "set_jog_speed"
    /\ last.ret = "True"
    /\ last.arg = 4999
    /\ last.pre_direction = "reverse"
    /\ last.writes[1].value = 3000

\* C8: set_jog_speed(s) writes clamp(s) as the speed value and, when it
\* succeeds, stores current_speed = clamp(s), with clamp(s) = 0 for s < 0,
\* 3000 for s > 3000 and s otherwise; the call fails only when the speed
\* write fails, never because s is out of range.
C8_ClampedWriteAndStore ==
    last.op = "set_jog_speed" =>
        /\ Len(last.writes) >= 1
        /\ last.writes[1].value =
               (IF last.arg < 0 THEN 0
                ELSE IF last.arg > 3000 THEN 3000 ELSE last.arg)
        /\ last.ret = "True" => current_speed = last.writes[1].value
        /\ last.ret = (IF last.writes[1].ok THEN "True" ELSE "False")

\* a request below the range succeeded and was written and stored as 0
C8_Witness ==
    /\ last.op = "set_jog_speed"
    /\ last.arg < 0
    /\ last.ret = "True"
    /\ last.pre_speed # 0
    /\ last.writes[1].value = 0
    /\ current_speed = 0

\* C9: initialize_speed reads JOG once; it adopts the value v as
\* current_speed exactly when the read succeeded and v <= 3000; otherwise
\* the stored speed is kept, which at startup is the seed 20.  It never
\* changes current_direction and never writes a register.
C9_InitializeSpeedAdoption ==
    last.op = "initialize_speed" =>
        /\ Len(last.reads) = 1
        /\ last.reads[1].reg = JOG
        /\ (last.reads[1].ok /\ last.reads[1].value <= 3000)
               => current_speed = last.reads[1].value
        /\ ~(last.reads[1].ok /\ last.reads[1].value <= 3000)
               => /\ current_speed = last.pre_speed
                  /\ ~last.pre_assigned => current_speed = 20
        /\ current_direction = last.pre_direction
        /\ last.writes = <<>>

\* at startup the register held the FORWARD code: 20 is kept
C9_Witness ==
    /\ last.op = "initialize_speed"
    /\ ~last.pre_assigned
    /\ last.reads[1].ok
    /\ last.reads[1].value = 4999
    /\ current_speed = 20

\* C10: from every direction, jog(c) with c in {FORWARD, REVERSE, STOP}
\* attempts exactly one write, of c; when that write succeeds the call
\* returns True, the direction afterwards is the one c names, whatever it
\* was before, and current_speed is unchanged.
C10_LevelTriggered ==
    (last.op = "jog" /\ last.arg \in {4999, 4998, 5000}) =>
        /\ Len(last.writes) = 1
        /\ last.writes[1].value = last.arg
        /\ last.writes[1].ok =>
            /\ last.ret = "True"
            /\ current_direction =
                   (IF last.arg = 4999 THEN "forward"
                    ELSE IF last.arg = 4998 THEN "reverse" ELSE "none")
            /\ current_speed = last.pre_speed

\* Forward -> Forward: the command is sent again and accepted
C10_Witness ==
    /\ last.op = "jog"
    /\ last.arg = 4999
    /\ last.pre_direction = "forward"
    /\ last.writes = <<write_register(4999, TRUE)>>
    /\ last.ret = "True"
    /\ current_direction = "forward"

\* C11: stop_jog() called right after a successful stop_jog() attempts one
\* write, of 5000; when it succeeds the state is the one the first call
\* left: current_direction Stopped and current_speed unchanged.
C11_StopJogIdempotent ==
    (last.op = "stop_jog" /\ last.after_stop) =>
        /\ Len(last.writes) = 1
        /\ last.writes[1].value = 5000
        /\ last.pre_direction = "none"
        /\ last.writes[1].ok =>
            /\ last.ret = "True"
            /\ current_direction = last.pre_direction
            /\ current_speed = last.pre_speed

\* two successful stop_jog() calls in a row
C11_Witness ==
    /\ last.op = "stop_jog"
    /\ last.after_stop
    /\ last.ret = "True"
    /\ last.writes = <<write_register(5000, TRUE)>>
    /\ current_direction = "none"

\* C12: close() on a connected controller writes STOP (5000), which sets
\* current_direction to Stopped, and then the speed 20; when both writes
\* succeed the state is Stopped with current_speed = 20, whatever the
\* direction and speed were.
C12_CloseSequence ==
    (last.op = "close" /\ instrument) =>
        /\ Len(last.writes) = 2
        /\ last.writes[1].value = 5000
        /\ last.writes[2].value = 20
        /\ last.writes[1].ok => current_direction = "none"
        /\ (last.writes[1].ok /\ last.writes[2].ok) => current_speed = 20

\* close() while reversing at full speed, both writes succeeding
C12_Witness ==
    /\ last.op = "close"
    /\ last.pre_direction = "reverse"
    /\ last.pre_speed = 3000
    /\ last.writes = <<write_register(5000, TRUE), write_register(20, TRUE)>>
    /\ current_direction = "none"
    /\ current_speed = 20

\* C13: once connect() has succeeded in main(), main() is left only after
\* close() has run, on every route, an operator interrupt included.
C13_CloseOnEveryExit ==
    pc \in {"returned", "returned_fault", "returned_nolink", "aborted"}
        => last.op = "close"

C15_CheckConnection ==
    last.op = "check_connection" =>
        /\ Len(last.reads) >= 1
        /\ last.reads[1].reg = 0
        /\ (last.ret = "True") <=>
               (/\ Len(last.reads) = 2
                /\ last.reads[1].ok
                /\ last.reads[2].reg = 1
                /\ last.reads[2].ok
                /\ last.reads[2].value = 0)
        /\ last.ret \in {"True", "False"}
        /\ last.writes = <<>>
        /\ current_speed = last.pre_speed
        /\ current_direction = last.pre_direction

\* both reads succeeded and the fault code is one the catalog does not list
C15_Witness ==
    /\ last.op = "check_connection"
    /\ Len(last.reads) = 2
    /\ last.reads[2].ok
    /\ last.reads[2].value = 11
    /\ last.ret = "False"

\* C16: a successful increase_speed(k) writes and stores clamp(c + k) and
\* a successful decrease_speed(k) writes and stores clamp(c - k), c being
\* the speed before the call; the result saturates at 3000 and at 0.
C16_IncreaseDecrease ==
    /\ (last.op = "increase_speed" /\ last.ret = "True") =>
        /\ current_speed =
               (IF last.pre_speed + last.arg > 3000 THEN 3000
                ELSE IF last.pre_speed + last.arg < 0 THEN 0
                ELSE last.pre_speed + last.arg)
        /\ last.writes[1].value = current_speed
    /\ (last.op = "decrease_speed" /\ last.ret = "True") =>
        /\ current_speed =
               (IF last.pre_speed - last.arg > 3000 THEN 3000
                ELSE IF last.pre_speed - last.arg < 0 THEN 0
                ELSE last.pre_speed - last.arg)
        /\ last.writes[1].value = current_speed

\* from 20, decrease_speed(25) requests -5: 0 is written and stored
C16_Witness ==
    /\ last.op = "decrease_speed"
    /\ last.pre_speed = 20
    /\ last.arg = 25
    /\ last.ret = "True"
    /\ last.writes[1].value = 0
    /\ current_speed = 0

\* C17: after close() has returned the controller holds no live handle.
C17_CloseReleasesHandle ==
    last.op = "close" => ~instrument

\* C18: set_jog_speed, increase_speed and decrease_speed never change
\* current_direction, whether their writes succeed or fail; while Stopped
\* they attempt exactly one write, of a speed in [0, 3000].
C18_SpeedChangeKeepsDirection ==
    last.op \in {"set_jog_speed", "increase_speed", "decrease_speed"} =>
        /\ current_direction = last.pre_direction
        /\ last.pre_direction = "none" =>
            /\ Len(last.writes) = 1
            /\ last.writes[1].value \in 0 .. 3000
            /\ last.writes[1].value \notin {4998, 4999, 5000}

\* a speed change made while stopped: one write, still stopped
C18_Witness ==
    /\ last.op = "increase_speed"
    /\ last.arg = 25
    /\ last.pre_direction = "none"
    /\ last.ret = "True"
    /\ Len(last.writes) = 1
    /\ current_direction = "none"

C20_CloseNeverWritesDirection ==
    last.op = "close" =>
        /\ last.ret = "None"
        /\ \A i \in 1 .. Len(last.writes) :
               last.writes[i].value \notin {4999, 4998}
        /\ \/ last.writes = <<>>
           \/ /\ Len(last.writes) = 2
              /\ last.writes[1].value = 5000
              /\ last.writes[2].value = 20

\* close() while moving forward: the STOP write timed out, the speed write
\* succeeded, and no direction was re-asserted
C20_Witness ==
    /\ last.op = "close"
    /\ last.pre_direction = "forward"
    /\ ~last.writes[1].ok
    /\ last.writes[2].ok
    /\ Len(last.writes) = 2

====
